---------------------------- MODULE Spec2Model ----------------------------
(***************************************************************************)
(* The models API of twig-api (src/unnamed/part_000): five request         *)
(* handlers over one PouchDB collection ('organisation-models').           *)
(*                                                                         *)
(* Every handler is a promise chain.  Each store call (allDocs, post, put, *)
(* remove) is one atomic step of the store; the callback that consumes its *)
(* result only touches the handler's own locals, so it is folded into the  *)
(* step of the store call it follows.  Between two store calls of one      *)
(* handler the other handlers may take any number of steps.               *)
(*                                                                         *)
(* PouchDB is an external library; its documented behaviour is modelled:   *)
(* allDocs returns the live documents in ascending _id order, post stores  *)
(* a document under a new uuid, put and remove succeed only when the given *)
(* _rev is the document's current revision and otherwise fail with status  *)
(* 409, and every successful write assigns a revision never used before.   *)
(* Store calls are assumed to return (no storage-engine failure).          *)
(*                                                                         *)
(* A handler that has ended keeps its request and its reply in its slot    *)
(* until the transport has sent the response (Close), which is the next    *)
(* step: sending touches neither the store nor another handler.           *)
(***************************************************************************)
EXTENDS Integers, Sequences, FiniteSets, TLC

\* ------------------------------------------------------------------ bounds
\* Requests that can be in flight together (connection slots).
MaxInFlight == 2
\* Successful store writes (post, put) in one behaviour; also the last revision.
MaxRev == 3
\* Documents ever created (uuids the store hands out).
MaxIds == 2
\* Distinct model names.
NumNames == 2
\* Distinct callers; caller c is user c and sends entities c with commit message c.
NumCallers == 2

Slots == 1..MaxInFlight
Ids == 1..MaxIds
Names == 1..NumNames
Callers == 1..NumCallers

VARIABLES
  store,     \* the collection: live _id -> [_rev, data: [entities, changelog, name]]
  usedIds,   \* every _id db.post has handed out (uuids are never reused)
  revCount,  \* revisions assigned so far; the next write gets revCount + 1
  pc,        \* per slot: where its handler's promise chain stands
  req,       \* per slot: the request being handled
  model,     \* per slot: the handler's local `model`
  wrote,     \* per slot (history): the _id this request's store write changed and the
             \* _rev the store gave it, NoWrite if it wrote nothing
  okUpdates, \* per _id (history): update requests answered 200 after writing that document
  reply,     \* per slot: what reply(...) was called with, NoReply if it was not
  twiglets,  \* the twiglets collection: live id -> [_rev, data: [name, description,
             \* model, nodes, links, changelog]]
  twigletIds,   \* every id the twiglets collection has handed out
  twigletRevs,  \* revisions the twiglets collection has assigned so far
  clonedFrom,   \* per twiglet id (history): the id of the twiglet it was cloned from, 0
                \* if it was created plainly
  twigletReply  \* the last twiglet request and its answer

twigletVars == <<twiglets, twigletIds, twigletRevs, clonedFrom, twigletReply>>
vars == <<store, usedIds, revCount, pc, req, model, wrote, okUpdates, reply,
          twiglets, twigletIds, twigletRevs, clonedFrom, twigletReply>>

NoReply == [status |-> 0]
NoModel == [_id |-> 0, _rev |-> 0]
NoReq == [method |-> "NONE"]
NoWrite == [id |-> 0, rev |-> 0]
NoTwigletReply == [op |-> "none", status |-> 0]

\* ------------------------------------------------------------- the store
\* A set of ids as the ascending sequence allDocs iterates in.
RECURSIVE SortedIds(_)
SortedIds(S) ==
  IF S = {} THEN <<>>
  ELSE LET m == CHOOSE x \in S : \A y \in S : x <= y
       IN <<m>> \o SortedIds(S \ {m})

\* db.allDocs({ include_docs: true }): rows of the live documents by ascending _id.
allDocs ==
  LET ids == SortedIds(DOMAIN store)
  IN [i \in 1..Len(ids) |->
        [doc |-> [_id |-> ids[i], _rev |-> store[ids[i]]._rev, data |-> store[ids[i]].data]]]

\* The clock new Date() reads: it never goes back, and ties are possible.
Now == revCount

\* (mutant) a store that takes any write to a live document: the last writer wins.
RevCurrentLastWins(id, rev) == id \in DOMAIN store

\* The store accepts put(doc) / remove(id, rev): the document is live and rev is current.
RevCurrent(id, rev) == id \in DOMAIN store /\ store[id]._rev = rev

\* (mutant) the document is stored under an _id made from its name instead of the
\* new uuid, so a second create of a name overwrites the first.
dbPostByName(id, data) ==
  [i \in DOMAIN store \cup {data.name} |->
     IF i = data.name THEN [_rev |-> revCount + 1, data |-> data] ELSE store[i]]

\* The store after db.post(doc) stored doc under the new uuid id.
dbPost(id, data) ==
  [i \in DOMAIN store \cup {id} |->
     IF i = id THEN [_rev |-> revCount + 1, data |-> data] ELSE store[i]]

\* (mutant) a rename is stored as a new document: the old one is removed and the
\* data is kept under the next _id.
dbPutAsNew(m) ==
  [i \in (DOMAIN store \ {m._id}) \cup {(m._id % MaxIds) + 1} |->
     IF i = (m._id % MaxIds) + 1 THEN [_rev |-> revCount + 1, data |-> m.data]
     ELSE store[i]]

\* (mutant) the update saves the whole collection back, so every document gets a new
\* revision.
dbPutBulk(m) ==
  [i \in DOMAIN store |->
     [_rev |-> revCount + 1, data |-> IF i = m._id THEN m.data ELSE store[i].data]]

\* The store after a successful db.put(m).
dbPut(m) ==
  [store EXCEPT ![m._id] = [_rev |-> revCount + 1, data |-> m.data]]

\* (mutant) the removal is acknowledged but the document stays.
dbRemoveKeeps(id) == store

\* The store after a successful db.remove(id, rev).
dbRemove(id) == [i \in DOMAIN store \ {id} |-> store[i]]

\* ---------------------------------------------------------------- getModel
\* (mutant) `=` written for `===` in the filter: the assignment is truthy for every row.
IsNamedAssign(row, name) == row.doc.data.name # 0

\* The filter of line 39: row.doc.data.name === name.
IsNamed(row, name) == row.doc.data.name = name

\* getModel(name): the first row of allDocs whose data.name is name, else Error 404.
getModel(name) ==
  LET modelArray == SelectSeq(allDocs, LAMBDA row : IsNamed(row, name))
  IN IF Len(modelArray) > 0
     THEN [status |-> 200, doc |-> modelArray[1].doc]
     ELSE [status |-> 404, message |-> "Not Found"]

\* ----------------------------------------------------------------- replies
buildUrl(name) == <<"models", name>>
changelogUrl(name) == <<"models", name, "changelog">>

\* The modelResponse object of the post, get and put handlers.
modelResponse(m) ==
  [entities |-> m.data.entities, _rev |-> m._rev, name |-> m.data.name,
   url |-> buildUrl(m.data.name), changelog_url |-> changelogUrl(m.data.name)]

\* reply(Boom.create(error.status || 500, error.message, ...)).
BoomReply(status, message) ==
  [status |-> status, payload |-> [statusCode |-> status, message |-> message]]

\* putModelHandler's catch: boomError.output.payload._rev = error._rev when it is set.
BoomReplyRev(status, message, rev) ==
  [status |-> status,
   payload |-> [statusCode |-> status, message |-> message, _rev |-> rev]]

changelogEntry(message, user) ==
  [message |-> message, user |-> user, timestamp |-> Now]

\* ------------------------------------------------------------------- slots
InFlight(r) == pc[r] \notin {"idle", "done"}
\* No response is waiting to be sent.
AllSent == \A r \in Slots : pc[r] # "done"
\* A request is taken by the first free slot.
Free(r) == AllSent /\ pc[r] = "idle" /\ \A o \in Slots : o < r => pc[o] # "idle"
\* The handler of slot r is about to make the store call named at.
At(r, at) == AllSent /\ pc[r] = at
\* Store writes the requests in flight have still to issue.
PendingPosts == Cardinality({r \in Slots : pc[r] = "post"})
PendingWrites == Cardinality({r \in Slots : pc[r] \in {"post", "put"}})
\* The model's caps: a handler goes on to a write only while revisions and uuids last.
RevBudget == revCount + PendingWrites < MaxRev
IdBudget == Cardinality(usedIds) + PendingPosts < MaxIds

NoPayload == [name |-> 0, entities |-> 0, commitMessage |-> 0, _rev |-> 0]

Init ==
  /\ store = <<>>
  /\ usedIds = {}
  /\ revCount = 0
  /\ pc = [r \in Slots |-> "idle"]
  /\ req = [r \in Slots |-> NoReq]
  /\ model = [r \in Slots |-> NoModel]
  /\ wrote = [r \in Slots |-> NoWrite]
  /\ okUpdates = [i \in Ids |-> 0]
  /\ reply = [r \in Slots |-> NoReply]
  /\ twiglets = <<>>
  /\ twigletIds = {}
  /\ twigletRevs = 0
  /\ clonedFrom = [i \in Ids |-> 0]
  /\ twigletReply = NoTwigletReply

\* The handler of slot r, serving request, awaits its next store call at nextpc.
Await(r, request, nextpc, m, w) ==
  /\ pc' = [pc EXCEPT ![r] = nextpc]
  /\ req' = [req EXCEPT ![r] = request]
  /\ model' = [model EXCEPT ![r] = m]
  /\ wrote' = [wrote EXCEPT ![r] = w]
  /\ UNCHANGED reply
  /\ UNCHANGED twigletVars

\* The handler of slot r ends, having called reply(rep) (NoReply: it never called it).
Finish(r, request, m, rep, w) ==
  /\ pc' = [pc EXCEPT ![r] = "done"]
  /\ req' = [req EXCEPT ![r] = request]
  /\ model' = [model EXCEPT ![r] = m]
  /\ wrote' = [wrote EXCEPT ![r] = w]
  /\ reply' = [reply EXCEPT ![r] = rep]
  /\ UNCHANGED twigletVars

\* The transport has sent the response of slot r (or given the request up, when the
\* handler never replied): the slot is free for the next request.
Close(r) ==
  /\ pc[r] = "done"
  /\ pc' = [pc EXCEPT ![r] = "idle"]
  /\ req' = [req EXCEPT ![r] = NoReq]
  /\ model' = [model EXCEPT ![r] = NoModel]
  /\ wrote' = [wrote EXCEPT ![r] = NoWrite]
  /\ reply' = [reply EXCEPT ![r] = NoReply]
  /\ UNCHANGED <<store, usedIds, revCount, okUpdates>>
  /\ UNCHANGED twigletVars

\* ------------------------------------------------------- postModelsHandler
\* (mutant) the creation entry is left out of the new document.
newDocumentNoEntry(payload, user) ==
  [_id |-> 0, _rev |-> 0,
   data |-> [entities |-> payload.entities, changelog |-> <<>>, name |-> payload.name]]

\* The document db.post is given (lines 55-63).
newDocument(payload, user) ==
  [_id |-> 0, _rev |-> 0,
   data |-> [entities |-> payload.entities,
             changelog |-> <<changelogEntry(payload.commitMessage, user)>>,
             name |-> payload.name]]

\* POST /models, up to the getModel lookup and the choice it makes.
postModelsHandler(r, payload, user) ==
  LET found == getModel(payload.name)
      request == [method |-> "POST", name |-> payload.name, payload |-> payload,
                  user |-> user]
  IN
  /\ Free(r)
  /\ found.status = 404 => (RevBudget /\ IdBudget)
  /\ IF found.status = 404
     THEN \* first catch: the name is free, db.post is issued
          Await(r, request, "post", newDocument(payload, user), NoWrite)
     ELSE \* getModel resolved: both catch handlers are skipped, reply is never called
          Finish(r, request, found.doc, NoReply, NoWrite)
  /\ UNCHANGED <<store, usedIds, revCount, okUpdates>>

\* db.post({ data: ... }) at the store.
postModelsHandler_post(r) ==
  /\ At(r, "post")
  /\ \E id \in Ids \ usedIds :
       /\ store' = dbPost(id, model[r].data)
       /\ usedIds' = usedIds \cup {id}
       /\ Await(r, req[r], "postRefetch", model[r], [id |-> id, rev |-> revCount + 1])
  /\ revCount' = revCount + 1
  /\ UNCHANGED okUpdates

\* .then(() => getModel(request.payload.name)).then(reply 201); errors reach the last catch.
postModelsHandler_refetch(r) ==
  LET newModel == getModel(req[r].payload.name) IN
  /\ At(r, "postRefetch")
  /\ IF newModel.status = 200
     THEN Finish(r, req[r], model[r],
                 [status |-> 201, payload |-> modelResponse(newModel.doc)], wrote[r])
     ELSE Finish(r, req[r], model[r],
                 BoomReply(newModel.status, newModel.message), wrote[r])
  /\ UNCHANGED <<store, usedIds, revCount, okUpdates>>

\* -------------------------------------------------------- getModelsHandler
\* The orgModels array: name and url of every row of allDocs, in its order.
orgModels ==
  [i \in 1..Len(allDocs) |->
     [name |-> allDocs[i].doc.data.name, url |-> buildUrl(allDocs[i].doc.data.name)]]

\* GET /models.
getModelsHandler(r) ==
  /\ Free(r)
  /\ Finish(r,
            [method |-> "LIST", name |-> 0, payload |-> NoPayload, user |-> 0],
            NoModel, [status |-> 200, payload |-> orgModels], NoWrite)
  /\ UNCHANGED <<store, usedIds, revCount, okUpdates>>

\* --------------------------------------------------------- getModelHandler
\* GET /models/{name}.
getModelHandler(r, name) ==
  LET found == getModel(name)
      request == [method |-> "GET", name |-> name, payload |-> NoPayload, user |-> 0]
  IN
  /\ Free(r)
  /\ IF found.status = 200
     THEN Finish(r, request, found.doc,
                 [status |-> 200, payload |-> modelResponse(found.doc)], NoWrite)
     ELSE Finish(r, request, NoModel,
                 BoomReply(found.status, found.message), NoWrite)
  /\ UNCHANGED <<store, usedIds, revCount, okUpdates>>

\* --------------------------------------------------------- putModelHandler
\* (mutant) the handler does not compare revisions and leaves it to the store.
RevMatchesAlways(m, rev) == TRUE

\* The in-handler comparison model._rev === request.payload._rev.
RevMatches(m, rev) == m._rev = rev

\* (mutant) the new entry is pushed at the end of the changelog instead of unshifted.
putMutateAppend(m, payload, user) ==
  [m EXCEPT !.data = [entities |-> payload.entities,
                      changelog |-> m.data.changelog
                                      \o <<changelogEntry(payload.commitMessage, user)>>,
                      name |-> payload.name]]

\* The local model after lines 128-134: entities and name replaced, entry unshifted.
putMutate(m, payload, user) ==
  [m EXCEPT !.data = [entities |-> payload.entities,
                      changelog |-> <<changelogEntry(payload.commitMessage, user)>>
                                      \o m.data.changelog,
                      name |-> payload.name]]

\* PUT /models/{name}, up to the getModel lookup and the revision comparison.
putModelHandler(r, name, payload, user) ==
  LET found == getModel(name)
      matches == found.status = 200 /\ RevMatches(found.doc, payload._rev)
      request == [method |-> "PUT", name |-> name, payload |-> payload, user |-> user]
  IN
  /\ Free(r)
  /\ matches => RevBudget
  /\ IF found.status = 404
     THEN Finish(r, request, NoModel, BoomReply(404, found.message), NoWrite)
     ELSE IF matches
     THEN Await(r, request, "put",
                putMutate(found.doc, payload, user), NoWrite)
     ELSE Finish(r, request, found.doc,
                 BoomReplyRev(409, "Conflict, bad revision number", found.doc._rev),
                 NoWrite)
  /\ UNCHANGED <<store, usedIds, revCount, okUpdates>>

\* db.put(model) at the store: a stale _rev is PouchDB's 409, which carries no _rev.
putModelHandler_put(r) ==
  /\ At(r, "put")
  /\ IF RevCurrent(model[r]._id, model[r]._rev)
     THEN /\ store' = dbPut(model[r])
          /\ revCount' = revCount + 1
          /\ Await(r, req[r], "putRefetch", model[r],
                   [id |-> model[r]._id, rev |-> revCount + 1])
     ELSE /\ Finish(r, req[r], model[r],
                    BoomReply(409, "Document update conflict"), NoWrite)
          /\ UNCHANGED <<store, revCount>>
  /\ UNCHANGED <<usedIds, okUpdates>>

\* .then(() => getModel(request.payload.name)).then(reply 200), else the catch.
putModelHandler_refetch(r) ==
  LET found == getModel(req[r].payload.name) IN
  /\ At(r, "putRefetch")
  /\ IF found.status = 200
     THEN /\ Finish(r, req[r], model[r],
                    [status |-> 200, payload |-> modelResponse(found.doc)], wrote[r])
          /\ okUpdates' = [okUpdates EXCEPT ![wrote[r].id] = @ + 1]
     ELSE /\ Finish(r, req[r], model[r],
                    BoomReply(found.status, found.message), wrote[r])
          /\ UNCHANGED okUpdates
  /\ UNCHANGED <<store, usedIds, revCount>>

\* ----------------------------------------------------- deleteModelsHandler
\* DELETE /models/{name}, up to the getModel lookup.
deleteModelsHandler(r, name) ==
  LET found == getModel(name)
      request == [method |-> "DELETE", name |-> name, payload |-> NoPayload, user |-> 0]
  IN
  /\ Free(r)
  /\ IF found.status = 200
     THEN Await(r, request, "remove", found.doc, NoWrite)
     ELSE Finish(r, request, NoModel,
                 BoomReply(found.status, found.message), NoWrite)
  /\ UNCHANGED <<store, usedIds, revCount, okUpdates>>

\* db.remove(model._id, model._rev) at the store, then reply().code(204).
deleteModelsHandler_remove(r) ==
  /\ At(r, "remove")
  /\ IF RevCurrent(model[r]._id, model[r]._rev)
     THEN /\ store' = dbRemove(model[r]._id)
          /\ Finish(r, req[r], model[r], [status |-> 204],
                    [id |-> model[r]._id, rev |-> 0])
     ELSE /\ Finish(r, req[r], model[r],
                    BoomReply(409, "Document update conflict"), NoWrite)
          /\ UNCHANGED store
  /\ UNCHANGED <<usedIds, revCount, okUpdates>>

\* ------------------------------------------------------------ specifications
\* The body caller c sends for a create or an update of name, with _rev rev.
Body(c, name, rev) ==
  [name |-> name, entities |-> c, commitMessage |-> c, _rev |-> rev]

\* The updates addressed to name: the body and the user.  An update that does not
\* reach db.put reads only the body's _rev, so the rest varies for those that do.
PutRequests(name) ==
  LET found == getModel(name)
      reaches(rev) == found.status = 200 /\ RevMatches(found.doc, rev)
  IN {[payload |-> Body(c, n, rev), user |-> c] :
        c \in Callers, n \in Names, rev \in {x \in 0..revCount : reaches(x)}}
       \cup {[payload |-> Body(1, name, rev), user |-> 1] :
               rev \in {x \in 0..revCount : ~reaches(x)}}

Step(r) ==
  \/ \E c \in Callers, name \in Names : postModelsHandler(r, Body(c, name, 0), c)
  \/ postModelsHandler_post(r)
  \/ postModelsHandler_refetch(r)
  \/ getModelsHandler(r)
  \/ \E name \in Names : getModelHandler(r, name)
  \/ \E name \in Names : \E request \in PutRequests(name) :
       putModelHandler(r, name, request.payload, request.user)
  \/ putModelHandler_put(r)
  \/ putModelHandler_refetch(r)
  \/ \E name \in Names : deleteModelsHandler(r, name)
  \/ deleteModelsHandler_remove(r)
  \/ Close(r)

\* Requests interleave at every store call.
Next == \E r \in Slots : Step(r)

Spec == Init /\ [][Next]_vars

\* Slot r holds the only request in flight.
Alone(r) == \A o \in Slots \ {r} : ~InFlight(o)

\* Requests executed one at a time: a step belongs to the only request in flight.
SeqStep(r) ==
  \/ \E c \in Callers, name \in Names :
       Alone(r) /\ postModelsHandler(r, Body(c, name, 0), c)
  \/ Alone(r) /\ postModelsHandler_post(r)
  \/ Alone(r) /\ postModelsHandler_refetch(r)
  \/ Alone(r) /\ getModelsHandler(r)
  \/ \E name \in Names : Alone(r) /\ getModelHandler(r, name)
  \/ \E name \in Names : \E request \in PutRequests(name) :
       Alone(r) /\ putModelHandler(r, name, request.payload, request.user)
  \/ Alone(r) /\ putModelHandler_put(r)
  \/ Alone(r) /\ putModelHandler_refetch(r)
  \/ \E name \in Names : Alone(r) /\ deleteModelsHandler(r, name)
  \/ Alone(r) /\ deleteModelsHandler_remove(r)
  \/ Alone(r) /\ Close(r)

SeqNext == \E r \in Slots : SeqStep(r)

SeqSpec == Init /\ [][SeqNext]_vars

\* ---------------------------------------------------------------- twiglets
\* The twiglets collection and its repository, as the specification describes them
\* (sections 4.1 to 4.5): a second collection of the same store, addressed by name,
\* written through the revision guard, with the clone engine in front of create.
\* Twiglet requests are taken one at a time, each as one step.

\* The graphs a caller sends: none, or the one node (link) of caller c.
Graphs == {<<>>} \cup {<<c>> : c \in Callers}

\* fetchAll(): the live twiglets in the store's iteration order.
twigletFetchAll ==
  LET ids == SortedIds(DOMAIN twiglets)
  IN [i \in 1..Len(ids) |->
        [_id |-> ids[i], _rev |-> twiglets[ids[i]]._rev, data |-> twiglets[ids[i]].data]]

\* (mutant) the lookup takes the first live twiglet, whatever its name.
findByNameFirst(name) ==
  IF Len(twigletFetchAll) > 0
  THEN [status |-> 200, doc |-> twigletFetchAll[1]]
  ELSE [status |-> 404, message |-> "Not Found"]

\* findByName(name): the live twiglet of that name, else NotFound.
findByName(name) ==
  LET found == SelectSeq(twigletFetchAll, LAMBDA doc : doc.data.name = name)
  IN IF Len(found) > 0
     THEN [status |-> 200, doc |-> found[1]]
     ELSE [status |-> 404, message |-> "Not Found"]

\* appendEntry(document, message, actor): the entry is prepended to the changelog.
appendEntry(data, message, actor) ==
  [data EXCEPT !.changelog =
     <<[message |-> message, user |-> actor, timestamp |-> twigletRevs]>> \o @]

\* (mutant) the clone takes the whole source and replaces only its name.
clonePayloadOfSource(source, newName, newDescription) ==
  [nodes |-> source.data.nodes, links |-> source.data.links,
   model |-> source.data.model, name |-> newName,
   description |-> source.data.description]

\* The clone engine's payload: nodes, links and model of the source, name and
\* description as supplied.
clonePayload(source, newName, newDescription) ==
  [nodes |-> source.data.nodes, links |-> source.data.links,
   model |-> source.data.model, name |-> newName, description |-> newDescription]

\* create builds a new document with a single changelog entry.
newTwiglet(payload, commitMessage, actor) ==
  appendEntry([name |-> payload.name, description |-> payload.description,
               model |-> payload.model, nodes |-> payload.nodes,
               links |-> payload.links, changelog |-> <<>>],
              commitMessage, actor)

\* The collection after create stored data under the new id.
twigletStored(id, data) ==
  [i \in DOMAIN twiglets \cup {id} |->
     IF i = id THEN [_rev |-> twigletRevs + 1, data |-> data] ELSE twiglets[i]]

\* (mutant) a clone keeps sharing the graph of its source: a write of the source's
\* nodes and links shows in every twiglet cloned from it.
twigletPutShared(m) ==
  [i \in DOMAIN twiglets |->
     IF i = m._id THEN [_rev |-> twigletRevs + 1, data |-> m.data]
     ELSE IF clonedFrom[i] = m._id
     THEN [twiglets[i] EXCEPT !.data.nodes = m.data.nodes, !.data.links = m.data.links]
     ELSE twiglets[i]]

\* The collection after put(document).
twigletPut(m) ==
  [twiglets EXCEPT ![m._id] = [_rev |-> twigletRevs + 1, data |-> m.data]]

\* The collection after remove(internalId, revision).
twigletRemoved(id) == [i \in DOMAIN twiglets \ {id} |-> twiglets[i]]

\* The mutate function of update: the payload fields replaced, the entry prepended.
twigletMutate(m, payload, commitMessage, actor) ==
  [m EXCEPT !.data =
     appendEntry([name |-> payload.name, description |-> payload.description,
                  model |-> m.data.model, nodes |-> payload.nodes,
                  links |-> payload.links, changelog |-> m.data.changelog],
                 commitMessage, actor)]

\* The model's caps on twiglet writes and twiglet ids.
TwigletRevBudget == twigletRevs < MaxRev
TwigletIdBudget == Cardinality(twigletIds) < MaxIds

\* The answer to a twiglet request that changed nothing; newName is the name the
\* request asked the twiglet to have.
twigletFails(op, name, newName, status) ==
  /\ twigletReply' = [op |-> op, status |-> status, id |-> 0, source |-> 0,
                      name |-> name, asked |-> [name |-> newName]]
  /\ UNCHANGED <<twiglets, twigletIds, twigletRevs, clonedFrom>>

\* Twiglet Repository create(payload, commitMessage, actor), for a plain create
\* (source 0) or on behalf of the clone engine: Conflict when the name is held, else
\* the new document is persisted and returned.  name is the name the request
\* addressed and asked what the caller supplied (both kept for the answer).
twigletCreate(op, source, name, asked, payload, commitMessage, actor) ==
  IF findByName(payload.name).status = 200
  THEN twigletFails(op, name, payload.name, 409)
  ELSE /\ TwigletRevBudget /\ TwigletIdBudget
       /\ \E id \in Ids \ twigletIds :
            /\ twiglets' = twigletStored(id, newTwiglet(payload, commitMessage, actor))
            /\ twigletIds' = twigletIds \cup {id}
            /\ clonedFrom' = [clonedFrom EXCEPT ![id] = source]
            /\ twigletReply' = [op |-> op, status |-> 201, id |-> id, source |-> source,
                                name |-> name, asked |-> asked]
       /\ twigletRevs' = twigletRevs + 1

\* POST /twiglets without a clone source: a twiglet with no nodes and no links.
postTwigletsHandler(name, description, modelName, commitMessage, actor) ==
  /\ twigletCreate("create", 0, name,
                   [name |-> name, description |-> description,
                    commitMessage |-> commitMessage],
                   [nodes |-> <<>>, links |-> <<>>, model |-> modelName,
                    name |-> name, description |-> description],
                   commitMessage, actor)
  /\ UNCHANGED <<store, usedIds, revCount, pc, req, model, wrote, okUpdates, reply>>

\* POST /twiglets with a clone source: cloneFrom(sourceName, newName, newDescription,
\* commitMessage, actor).
cloneFrom(sourceName, newName, newDescription, commitMessage, actor) ==
  LET source == findByName(sourceName) IN
  /\ IF source.status = 404
     THEN twigletFails("clone", sourceName, newName, 404)
     ELSE twigletCreate("clone", source.doc._id, sourceName,
                        [name |-> newName, description |-> newDescription,
                         commitMessage |-> commitMessage],
                        clonePayload(source.doc, newName, newDescription),
                        commitMessage, actor)
  /\ UNCHANGED <<store, usedIds, revCount, pc, req, model, wrote, okUpdates, reply>>

\* PUT /twiglets/{name}: guardedUpdate(name, supplied_revision, mutateFn).
putTwigletHandler(name, payload, commitMessage, actor) ==
  LET found == findByName(name) IN
  /\ IF found.status = 404
     THEN twigletFails("update", name, payload.name, 404)
     ELSE IF found.doc._rev # payload._rev
     THEN /\ twigletReply' = [op |-> "update", status |-> 409, id |-> 0, source |-> 0,
                              name |-> name, asked |-> [name |-> payload.name],
                              _rev |-> found.doc._rev]
          /\ UNCHANGED <<twiglets, twigletIds, twigletRevs, clonedFrom>>
     ELSE /\ TwigletRevBudget
          /\ twiglets' = twigletPut(twigletMutate(found.doc, payload, commitMessage, actor))
          /\ twigletRevs' = twigletRevs + 1
          /\ twigletReply' = [op |-> "update", status |-> 200, id |-> found.doc._id,
                              source |-> 0, name |-> name,
                              asked |-> [name |-> payload.name]]
          /\ UNCHANGED <<twigletIds, clonedFrom>>
  /\ UNCHANGED <<store, usedIds, revCount, pc, req, model, wrote, okUpdates, reply>>

\* DELETE /twiglets/{name}: resolve by name, then remove by internalId and revision.
deleteTwigletHandler(name) ==
  LET found == findByName(name) IN
  /\ IF found.status = 404
     THEN twigletFails("delete", name, name, 404)
     ELSE /\ twiglets' = twigletRemoved(found.doc._id)
          /\ twigletReply' = [op |-> "delete", status |-> 204, id |-> found.doc._id,
                              source |-> 0, name |-> name, asked |-> [name |-> name]]
          /\ UNCHANGED <<twigletIds, twigletRevs, clonedFrom>>
  /\ UNCHANGED <<store, usedIds, revCount, pc, req, model, wrote, okUpdates, reply>>

\* The body caller c sends for an update: its description and its link, if any.
TwigletBody(c, name, nodes, linked, rev) ==
  [name |-> name, description |-> c, nodes |-> nodes,
   links |-> IF linked THEN <<c>> ELSE <<>>, _rev |-> rev]

\* The updates addressed to name.  An update the revision guard stops reads only
\* the body's _rev, so the rest of the body varies for those it lets through.
TwigletPutRequests(name) ==
  LET found == findByName(name)
      passes(rev) == found.status = 200 /\ found.doc._rev = rev
  IN {[payload |-> TwigletBody(c, n, nodes, linked, rev), actor |-> c] :
        c \in Callers, n \in Names, nodes \in Graphs, linked \in BOOLEAN,
        rev \in {x \in 0..twigletRevs : passes(x)}}
       \cup {[payload |-> TwigletBody(1, name, <<>>, FALSE, rev), actor |-> 1] :
               rev \in {x \in 0..twigletRevs : ~passes(x)}}

TwigletNext ==
  \/ \E name \in Names, c \in Callers, modelName \in Names :
       postTwigletsHandler(name, c, modelName, c, c)
  \/ \E sourceName \in Names, newName \in Names, c \in Callers :
       cloneFrom(sourceName, newName, c, c, c)
  \/ \E name \in Names : \E request \in TwigletPutRequests(name) :
       putTwigletHandler(name, request.payload, request.actor, request.actor)
  \/ \E name \in Names : deleteTwigletHandler(name)

TwigletSpec == Init /\ [][TwigletNext]_vars

\* ------------------------------------------------------------------ claims
\* Some live document has this name.
NameHeld(name) == \E id \in DOMAIN store : store[id].data.name = name
\* The live document id is at revision rev.
HoldsRev(id, rev) == id \in DOMAIN store /\ store[id]._rev = rev
\* rev was assigned by the store and is the revision of no live document any more.
Superseded(rev) == rev \in 1..revCount /\ \A id \in DOMAIN store : store[id]._rev # rev
\* Slot r takes a request in this step.
Starts(r, method) == pc[r] = "idle" /\ pc'[r] # "idle" /\ req'[r].method = method
\* Slot r makes the store call it awaited at `at` in this step.
Leaves(r, at) == pc[r] = at /\ pc'[r] # at
Answered(r, method) == pc[r] = "done" /\ req[r].method = method

\* C1: with requests executed one at a time, an update that supplies the current
\* revision R1 of the document it resolves is applied and answered 200, and the
\* document then has a revision R2 the store never used before (so R2 # R1 and R1 is
\* never current again); an update that supplies a superseded revision and
\* addresses a held name is answered 409 at once and changes nothing in the store.
C1_RevisionGuard ==
  [][\A r \in Slots :
       /\ Leaves(r, "put") =>
            /\ pc'[r] = "putRefetch"
            /\ store'[model[r]._id]._rev \notin 0..revCount
            /\ store'[model[r]._id]._rev # req[r].payload._rev
       /\ Leaves(r, "putRefetch") => reply'[r].status = 200
       /\ (Starts(r, "PUT") /\ Superseded(req'[r].payload._rev) /\ NameHeld(req'[r].name)) =>
            /\ pc'[r] = "done"
            /\ reply'[r].status = 409
            /\ store' = store
    ]_vars

\* C1's case: an update supplying a superseded revision of a document that was
\* updated before has been answered 409.
C1_Witness ==
  \E r \in Slots :
    /\ Answered(r, "PUT") /\ reply[r].status = 409
    /\ Superseded(req[r].payload._rev)
    /\ model[r]._id \in DOMAIN store
    /\ Len(store[model[r]._id].data.changelog) > 1

\* C2: under any interleaving, of the updates that resolved the same document and
\* supplied the same revision, the first whose db.put reaches the store while that
\* revision is current is applied, and is answered 200 when its re-fetch finds the
\* document as it wrote it; every other one is rejected by the handler's comparison
\* or by the store's put, is answered 409, ends there (no retry) and writes nothing.
C2_OneWriterWins ==
  [][\A r \in Slots :
       /\ Leaves(r, "put") =>
            IF HoldsRev(model[r]._id, model[r]._rev)
            THEN /\ pc'[r] = "putRefetch"
                 /\ store'[model[r]._id]._rev \notin 0..revCount
                 /\ \A o \in Slots \ {r} :
                      (pc[o] = "put" /\ model[o]._id = model[r]._id) =>
                         ~HoldsRev(model[o]._id, model[o]._rev)'
            ELSE /\ pc'[r] = "done"
                 /\ reply'[r].status = 409
                 /\ wrote'[r] = NoWrite
                 /\ store' = store /\ revCount' = revCount
       /\ (Leaves(r, "putRefetch") /\ HoldsRev(wrote[r].id, wrote[r].rev)) =>
            reply'[r].status = 200
       /\ (Starts(r, "PUT") /\ NameHeld(req'[r].name) /\ pc'[r] = "done") =>
            /\ reply'[r].status = 409
            /\ wrote'[r] = NoWrite
            /\ store' = store /\ revCount' = revCount
    ]_vars

\* C2's case: of two updates that passed the handler's comparison on the same
\* document and revision, one has written and the other was rejected by db.put.
C2_Witness ==
  \E r, o \in Slots :
    /\ Answered(r, "PUT") /\ reply[r].status = 409
    /\ model[r]._rev = req[r].payload._rev
    /\ pc[o] = "putRefetch" /\ wrote[o].id = model[r]._id
    /\ req[o].payload._rev = req[r].payload._rev

\* C3: with requests executed one at a time, a create whose name a live document
\* holds is answered 409 and stores no document.
C3_DuplicateCreateConflict ==
  \A r \in Slots :
    (Answered(r, "POST") /\ model[r]._id # 0) =>
       reply[r].status = 409 /\ wrote[r] = NoWrite

\* C4: every request whose handler has ended was answered, with a success or with a
\* failure of status 404, 409 or 500.
C4_EveryRequestAnswered ==
  \A r \in Slots : pc[r] = "done" => reply[r].status \in {200, 201, 204, 404, 409, 500}

\* C5: every 409 answer to an update carries the revision the document it resolved
\* has in the store.
C5_ConflictCarriesRevision ==
  \A r \in Slots :
    (Answered(r, "PUT") /\ reply[r].status = 409) =>
       /\ "_rev" \in DOMAIN reply[r].payload
       /\ HoldsRev(model[r]._id, reply[r].payload._rev)

\* C6: with requests executed one at a time, no two live documents have the same name.
C6_UniqueNames ==
  \A i, j \in DOMAIN store : i # j => store[i].data.name # store[j].data.name

\* C7: with requests executed one at a time, right after a delete of name x was
\* answered 204 a get of x finds nothing (404), as does the lookup of a delete of x,
\* and x is not in the list of all documents.
C7_DeleteTerminal ==
  \A r \in Slots :
    (Answered(r, "DELETE") /\ reply[r].status = 204) =>
       /\ getModel(req[r].name).status = 404
       /\ \A i \in DOMAIN orgModels : orgModels[i].name # req[r].name

\* C8: for every live document with no update between its write and its answer, the
\* changelog has one entry more than the updates of that document answered 200, and
\* its entries are newest first.
C8_ChangelogCountsUpdates ==
  \A id \in DOMAIN store :
    (\A r \in Slots : ~(pc[r] = "putRefetch" /\ wrote[r].id = id)) =>
       /\ Len(store[id].data.changelog) = 1 + okUpdates[id]
       /\ \A i, j \in DOMAIN store[id].data.changelog :
            i < j => store[id].data.changelog[i].timestamp
                       >= store[id].data.changelog[j].timestamp

\* C9: with requests executed one at a time, right after a create of name n with
\* entities P and commit message m was answered 201, a get of n answers the document
\* named n with entities P, and its stored changelog is the single entry of message
\* m and the creating user.
C9_CreateThenGet ==
  \A r \in Slots :
    (Answered(r, "POST") /\ reply[r].status = 201) =>
       LET got == getModel(req[r].name) IN
       /\ got.status = 200
       /\ modelResponse(got.doc).name = req[r].payload.name
       /\ modelResponse(got.doc).entities = req[r].payload.entities
       /\ Len(got.doc.data.changelog) = 1
       /\ got.doc.data.changelog[1].message = req[r].payload.commitMessage
       /\ got.doc.data.changelog[1].user = req[r].user

\* C9's case: a create was answered 201 while another document is live.
C9_Witness ==
  \E r \in Slots :
    /\ Answered(r, "POST") /\ reply[r].status = 201
    /\ Cardinality(DOMAIN store) = 2

\* C10: under any interleaving, a get, update or delete of a name no live document
\* holds is answered 404 by its first step and leaves the store as it was.
C10_NotFound ==
  [][\A r \in Slots :
       ((Starts(r, "GET") \/ Starts(r, "PUT") \/ Starts(r, "DELETE"))
          /\ ~NameHeld(req'[r].name)) =>
            /\ pc'[r] = "done"
            /\ reply'[r].status = 404
            /\ store' = store /\ usedIds' = usedIds /\ revCount' = revCount
    ]_vars

\* C10's case: an update of a name nobody holds was answered 404 while the store
\* holds a document.
C10_Witness ==
  \E r \in Slots :
    /\ Answered(r, "PUT") /\ reply[r].status = 404
    /\ ~NameHeld(req[r].name)
    /\ DOMAIN store # {}

\* C11: an update answered 200 shows, in its answer, the document that very request
\* wrote: the name and entities of its body and the revision the store gave its
\* write, never another document and never another revision.
C11_AnswerShowsOwnWrite ==
  \A r \in Slots :
    (Answered(r, "PUT") /\ reply[r].status = 200) =>
       /\ reply[r].payload._rev = wrote[r].rev
       /\ reply[r].payload.name = req[r].payload.name
       /\ reply[r].payload.entities = req[r].payload.entities

\* C15: under any interleaving, the changelog of a live document is never empty and
\* is append-only: whenever a step changes the stored changelog of a document, the
\* old changelog is the new one without its first entry.
C15_ChangelogAppendOnly ==
  /\ [](\A id \in DOMAIN store : Len(store[id].data.changelog) >= 1)
  /\ [][\A id \in DOMAIN store :
          (id \in DOMAIN store'
             /\ store'[id].data.changelog # store[id].data.changelog) =>
               /\ Len(store'[id].data.changelog) = Len(store[id].data.changelog) + 1
               /\ Tail(store'[id].data.changelog) = store[id].data.changelog
       ]_vars

\* C15's case: a document has been updated twice while a rejected update of it is
\* being answered.
C15_Witness ==
  \E r \in Slots :
    /\ Answered(r, "PUT") /\ reply[r].status = 409
    /\ model[r]._id \in DOMAIN store
    /\ Len(store[model[r]._id].data.changelog) = 3

\* The data a create request asks the store to hold.
Requested(request) ==
  [entities |-> request.payload.entities,
   changelog |-> <<[message |-> request.payload.commitMessage, user |-> request.user,
                    timestamp |-> 0]>>,
   name |-> request.payload.name]
\* The data with the timestamps of its changelog left out of the comparison.
Untimed(data) ==
  [data EXCEPT !.changelog =
     [i \in DOMAIN data.changelog |-> [data.changelog[i] EXCEPT !.timestamp = 0]]]

\* C16: under any interleaving, the db.post of a create adds one document under an
\* _id that was not in the store, at a revision never used before, holding the
\* requested name and entities and a changelog of exactly the creation entry, and
\* leaves every other document as it was, also when another live document has the
\* same name; and a create whose re-fetch finds its name held is answered 201.
C16_RacingCreatesWellFormed ==
  [][\A r \in Slots :
       /\ Leaves(r, "post") =>
            /\ pc'[r] = "postRefetch"
            /\ wrote'[r].id \notin DOMAIN store
            /\ DOMAIN store' = DOMAIN store \cup {wrote'[r].id}
            /\ \A i \in DOMAIN store : store'[i] = store[i]
            /\ store'[wrote'[r].id]._rev = wrote'[r].rev
            /\ wrote'[r].rev \notin 0..revCount
            /\ Untimed(store'[wrote'[r].id].data) = Requested(req[r])
       /\ (Leaves(r, "postRefetch") /\ NameHeld(req[r].payload.name)) =>
            reply'[r].status = 201
    ]_vars

\* C16's case: two creates of one name both passed the existence check and both
\* wrote; one has been answered 201, the other is about to be, and two live
\* documents have that name.
C16_Witness ==
  \E r, o \in Slots :
    /\ Answered(r, "POST") /\ reply[r].status = 201
    /\ pc[o] = "postRefetch" /\ req[o].payload.name = req[r].payload.name
    /\ wrote[r].id # wrote[o].id
    /\ HoldsRev(wrote[r].id, wrote[r].rev) /\ HoldsRev(wrote[o].id, wrote[o].rev)
    /\ store[wrote[r].id].data.name = store[wrote[o].id].data.name

\* C17: under any interleaving, an update, also one that changes the name, writes the
\* document under the _id the lookup resolved: the set of live _ids and of _ids ever
\* handed out is the same after the write, and the document keeps its creation entry.
C17_InternalIdStable ==
  [][\A r \in Slots :
       (Leaves(r, "put") /\ pc'[r] = "putRefetch") =>
          /\ DOMAIN store' = DOMAIN store
          /\ usedIds' = usedIds
          /\ wrote'[r].id = model[r]._id
          /\ model[r]._id \in DOMAIN store
          /\ store'[model[r]._id].data.name = req[r].payload.name
          /\ LET old == store[model[r]._id].data.changelog
                 new == store'[model[r]._id].data.changelog
             IN new[Len(new)] = old[Len(old)]
    ]_vars

\* C17's case: an update that changed the name of a document has been written.
C17_Witness ==
  \E r \in Slots :
    /\ pc[r] = "putRefetch"
    /\ req[r].payload.name # req[r].name
    /\ HoldsRev(wrote[r].id, wrote[r].rev)
    /\ store[wrote[r].id].data.name = req[r].payload.name

\* An _id the store handed out whose document has been removed.
Removed(id) == id \in usedIds /\ id \notin DOMAIN store

\* C18: under any interleaving, a delete whose db.remove is answered 204 removed the
\* live document it resolved, after which no other delete of that document can
\* succeed and the document never comes back; a delete that does not remove is
\* answered 404 or 409 and leaves the store as it was; an update racing with it is
\* answered 200, 404 or 409.
C18_DeleteRaces ==
  [][/\ \A r \in Slots :
          /\ Leaves(r, "remove") =>
               IF reply'[r].status = 204
               THEN /\ model[r]._id \in DOMAIN store
                    /\ model[r]._id \notin DOMAIN store'
                    /\ \A o \in Slots \ {r} :
                         (pc[o] = "remove" /\ model[o]._id = model[r]._id) =>
                            ~HoldsRev(model[o]._id, model[o]._rev)'
               ELSE /\ reply'[r].status \in {404, 409}
                    /\ store' = store
          /\ (Starts(r, "DELETE") /\ pc'[r] = "done") =>
               reply'[r].status = 404 /\ store' = store
          /\ ((Leaves(r, "put") \/ Leaves(r, "putRefetch") \/ Starts(r, "PUT"))
                /\ pc'[r] = "done") => reply'[r].status \in {200, 404, 409}
     /\ \A id \in Ids : Removed(id) => Removed(id)'
    ]_vars

\* C18's case: a delete lost the race with another delete of the same document and
\* has been answered 409.
C18_Witness ==
  \E r \in Slots :
    /\ Answered(r, "DELETE") /\ reply[r].status = 409
    /\ Removed(model[r]._id)

\* C19: under any interleaving, a create or an update answered with a failure status
\* has written nothing to the store.
C19_FailureWritesNothing ==
  \A r \in Slots :
    ((Answered(r, "POST") \/ Answered(r, "PUT")) /\ reply[r].status \in {404, 409, 500}) =>
       wrote[r] = NoWrite

\* C20: under any interleaving, the store write of an update or a delete changes or
\* removes the one document the lookup by the addressed name resolved, and leaves
\* every other document as it was; the lookup resolves a document of that name; a
\* list or a get changes no document.
C20_OneDocumentTouched ==
  [][\A r \in Slots :
       /\ (Leaves(r, "put") \/ Leaves(r, "remove")) =>
            /\ \A i \in DOMAIN store \ {model[r]._id} :
                 i \in DOMAIN store' /\ store'[i] = store[i]
            /\ DOMAIN store' \subseteq DOMAIN store
            /\ store' # store => (model[r]._id \in DOMAIN store
                                    /\ req[r].method \in {"PUT", "DELETE"})
       /\ ((Starts(r, "PUT") \/ Starts(r, "DELETE")) /\ pc'[r] # "done") =>
            /\ store' = store
            /\ model'[r]._id \in DOMAIN store
            /\ store[model'[r]._id].data.name = req'[r].name
       /\ (Starts(r, "GET") \/ Starts(r, "LIST")) =>
            store' = store /\ usedIds' = usedIds /\ revCount' = revCount
    ]_vars

\* C20's case: an update has been written while another live document has the name
\* the update was addressed to or the name it gave.
C20_Witness ==
  \E r \in Slots :
    /\ pc[r] = "putRefetch"
    /\ HoldsRev(wrote[r].id, wrote[r].rev)
    /\ \E i \in DOMAIN store \ {wrote[r].id} :
         store[i].data.name \in {req[r].name, req[r].payload.name}

\* Some live twiglet has this name.
TwigletNameHeld(name) == \E id \in DOMAIN twiglets : twiglets[id].data.name = name

\* C12: with twiglet requests taken one at a time, right after a clone was answered
\* 201 the new twiglet has the nodes, links and model reference of its source, the
\* name and description the caller supplied, and a changelog of exactly one entry,
\* which holds the clone's commit message and actor.
C12_CloneCopiesGraph ==
  (twigletReply.op = "clone" /\ twigletReply.status = 201) =>
     /\ twigletReply.id \in DOMAIN twiglets
     /\ twigletReply.source \in DOMAIN twiglets \ {twigletReply.id}
     /\ LET a == twiglets[twigletReply.source].data
            b == twiglets[twigletReply.id].data
        IN /\ b.nodes = a.nodes /\ b.links = a.links /\ b.model = a.model
           /\ b.name = twigletReply.asked.name
           /\ b.description = twigletReply.asked.description
           /\ Len(b.changelog) = 1
           /\ b.changelog[1].message = twigletReply.asked.commitMessage

\* C12's case: a twiglet that has nodes, links and a changelog of two entries was
\* cloned under another name and description.
C12_Witness ==
  /\ twigletReply.op = "clone" /\ twigletReply.status = 201
  /\ LET a == twiglets[twigletReply.source].data
     IN /\ a.nodes # <<>> /\ a.links # <<>> /\ Len(a.changelog) = 2
        /\ a.description # twigletReply.asked.description
        /\ a.changelog[1].message # twigletReply.asked.commitMessage

\* The twiglet request of this step was applied to the twiglet id.
AppliedTo(id, ops) ==
  /\ twigletReply'.op \in ops
  /\ twigletReply'.status \in {200, 204}
  /\ twigletReply'.id = id

\* C13: with twiglet requests taken one at a time, an update or a delete applied to
\* a twiglet leaves every twiglet cloned from it as it was, and an update applied to
\* a clone leaves its source as it was.
C13_CloneIsolation ==
  [][\A b \in DOMAIN twiglets :
       clonedFrom[b] # 0 =>
         /\ AppliedTo(clonedFrom[b], {"update", "delete"}) =>
              b \in DOMAIN twiglets' /\ twiglets'[b] = twiglets[b]
         /\ (AppliedTo(b, {"update"}) /\ clonedFrom[b] \in DOMAIN twiglets) =>
              /\ clonedFrom[b] \in DOMAIN twiglets'
              /\ twiglets'[clonedFrom[b]] = twiglets[clonedFrom[b]]
    ]_vars

\* C13's case: the source of a live clone was given nodes and links the clone does
\* not have.
C13_Witness ==
  /\ twigletReply.op = "update" /\ twigletReply.status = 200
  /\ \E b \in DOMAIN twiglets :
       /\ clonedFrom[b] = twigletReply.id
       /\ twigletReply.id \in DOMAIN twiglets
       /\ twiglets[b].data.nodes # twiglets[twigletReply.id].data.nodes
       /\ twiglets[b].data.links # twiglets[twigletReply.id].data.links

\* C14: with twiglet requests taken one at a time, a clone whose source name no live
\* twiglet has is answered 404, a clone of a live source into a name a live twiglet
\* has is answered 409, and neither changes the collection; a clone of a live source
\* into a free name is answered 201, also when the source has no nodes and no links,
\* and the new twiglet then has none.
C14_CloneErrors ==
  [][twigletReply'.op = "clone" =>
       LET source == twigletReply'.name
           newName == twigletReply'.asked.name
       IN IF ~TwigletNameHeld(source)
          THEN /\ twigletReply'.status = 404
               /\ twiglets' = twiglets /\ twigletIds' = twigletIds
          ELSE IF TwigletNameHeld(newName)
          THEN /\ twigletReply'.status = 409
               /\ twiglets' = twiglets /\ twigletIds' = twigletIds
          ELSE /\ twigletReply'.status = 201
               /\ twigletReply'.id \in DOMAIN twiglets' \ DOMAIN twiglets
               /\ \A i \in DOMAIN twiglets : twiglets'[i] = twiglets[i]
               /\ LET a == twiglets[twigletReply'.source].data
                  IN (a.nodes = <<>> /\ a.links = <<>>) =>
                       /\ twiglets'[twigletReply'.id].data.nodes = <<>>
                       /\ twiglets'[twigletReply'.id].data.links = <<>>
    ]_vars

\* C14's case: a clone of a live twiglet into the name of another live twiglet was
\* answered 409.
C14_Witness ==
  /\ twigletReply.op = "clone" /\ twigletReply.status = 409
  /\ TwigletNameHeld(twigletReply.name)
  /\ \E i, j \in DOMAIN twiglets :
       /\ i # j
       /\ twiglets[i].data.name = twigletReply.name
       /\ twiglets[j].data.name = twigletReply.asked.name

=============================================================================
